---- MODULE Spec2Model ----
(***************************************************************************)
(* State-machine model of nanobot/providers/custom_provider.py:            *)
(* CustomProvider.chat, its streaming aggregator _consume_stream and its   *)
(* non-stream parser _parse.                                               *)
(*                                                                         *)
(* Python values are represented as follows.                               *)
(*   str        a sequence of text tokens; "" is << >>                     *)
(*   None       where a str is expected, the one-element sequence          *)
(*              <<"None">> (no str contains the token "None"); where an    *)
(*              object is expected, the record NoneObject; where a list is *)
(*              expected, the empty list (the code only tests such lists   *)
(*              for truth, and None and [] are both false)                 *)
(*   list       a sequence                                                 *)
(*   dict       an insertion-ordered sequence of [key, val] items          *)
(*              (tool_calls_by_index), or a TLA+ function (usage)          *)
(*   decoded JSON value   a record [type, members]                         *)
(***************************************************************************)
EXTENDS Integers, Sequences, FiniteSets, TLC

(* ------------------------------ bounds --------------------------------- *)
MaxChunks == 3      \* chunks the source yields before it ends or fails
MaxIdx == 1         \* tool-call fragment indices are 0..MaxIdx
MaxCalls == 2       \* tool calls on a non-stream message

(* --------------------------- Python values ----------------------------- *)
None == <<"None">>
NoneObject == [none |-> TRUE]

\* Python truthiness of an Optional[str]
Truthy(v) == v # None /\ v # <<>>

\* Python truthiness of an Optional[list]
NonEmpty(l) == l # <<>>

\* " ".join(parts): a separator between the parts
RECURSIVE JoinWithSeparator(_)
JoinWithSeparator(parts) ==
    IF parts = <<>> THEN <<>>
    ELSE IF Len(parts) = 1 THEN Head(parts)
    ELSE Head(parts) \o <<" ">> \o JoinWithSeparator(Tail(parts))

\* "".join(parts)
RECURSIVE Join(_)
Join(parts) == IF parts = <<>> THEN <<>> ELSE Head(parts) \o Join(Tail(parts))

\* x or None
OrNone(s) == IF Truthy(s) THEN s ELSE None

EmptyDict == [k \in {} |-> 0]

STOP == <<"stop">>
ERROR == <<"error">>

(* ----------------------- json_repair.loads ----------------------------- *)
(* Argument text is a sequence over the lexical tokens                      *)
(*   "{"  opening brace      "}"  closing brace                             *)
(*   "a"  one member text    "x"  text that is not JSON                     *)
(* json_repair.loads first tries json.loads and, when that fails, scans     *)
(* for the start of a JSON value, skipping whatever precedes it; it closes  *)
(* what the text leaves open, and returns the empty *string* when it finds  *)
(* no value at all (that includes the empty text).                          *)
Dict(ms) == [type |-> "dict", members |-> ms]
EmptyMapping == Dict({})
EmptyString == [type |-> "str", members |-> {}]

\* position of the first "{" at or after position i, 0 if there is none
RECURSIVE FindObject(_, _)
FindObject(s, i) ==
    IF i > Len(s) THEN 0
    ELSE IF s[i] = "{" THEN i
    ELSE FindObject(s, i + 1)

\* members of the object whose body starts at position i: up to the closing
\* brace, or up to the end of the text when the brace is missing
RECURSIVE ObjectMembers(_, _)
ObjectMembers(s, i) ==
    IF i > Len(s) THEN {}
    ELSE IF s[i] = "}" THEN {}
    ELSE IF s[i] = "a" THEN {"a"} \cup ObjectMembers(s, i + 1)
    ELSE ObjectMembers(s, i + 1)

JsonRepairLoads(s) ==
    LET at == FindObject(s, 1)
    IN  IF at = 0 THEN EmptyString ELSE Dict(ObjectMembers(s, at + 1))

(* --------------------------- sample inputs ----------------------------- *)
\* usage objects of the source; they carry more than the three counters
U1 == [prompt_tokens |-> 1, completion_tokens |-> 2, total_tokens |-> 3, cached_tokens |-> 0]
U2 == [prompt_tokens |-> 4, completion_tokens |-> 1, total_tokens |-> 5, cached_tokens |-> 2]
UsageObjs == {U1, U2}

Idx == 0..MaxIdx
CallId(i) == <<"call", ToString(i)>>
FnName(i) == <<"fn", ToString(i)>>

\* argument substrings a source may put in one fragment
ArgPieces == {<<"{">>, <<"a", "}">>, <<"x">>}

Fragment(i, id, fn) == [index |-> i, id |-> id, function |-> fn]
Function(name, arguments) == [name |-> name, arguments |-> arguments]

\* first fragment of a call: id and name, no argument text yet
HeadFragment(i) == Fragment(i, CallId(i), Function(FnName(i), <<>>))
\* a fragment that only carries an id and has no function part
IdFragment(i) == Fragment(i, <<"renamed">>, NoneObject)
\* a fragment that only carries a name
NameFragment(i) == Fragment(i, None, Function(<<"renamed_fn">>, None))
\* a fragment that carries nothing but its index
BareFragment(i) == Fragment(i, None, NoneObject)
\* a fragment that only carries argument text
ArgFragment(i, p) == Fragment(i, None, Function(None, p))

Delta(content, reasoning_content, tool_calls) ==
    [content |-> content, reasoning_content |-> reasoning_content, tool_calls |-> tool_calls]
Choice(finish_reason, delta) == [finish_reason |-> finish_reason, delta |-> delta]
Chunk(choices, u) == [choices |-> choices, usage |-> u]

\* deltas that carry text: content, reasoning, finish reason, and whether
\* the chunk also carries a usage object next to its choice
TextSamples ==
    { [content |-> <<"h">>, reasoning |-> None,     finish |-> None,         with_usage |-> FALSE],
      [content |-> <<"i">>, reasoning |-> <<"r">>,  finish |-> None,         with_usage |-> FALSE],
      [content |-> <<>>,    reasoning |-> <<>>,     finish |-> <<>>,         with_usage |-> FALSE],
      [content |-> None,    reasoning |-> <<"s">>,  finish |-> <<"length">>, with_usage |-> FALSE],
      [content |-> <<"j">>, reasoning |-> None,     finish |-> STOP,         with_usage |-> TRUE] }

TextChunk(t) ==
    Chunk(<<Choice(t.finish, Delta(t.content, t.reasoning, <<>>))>>,
          IF t.with_usage THEN U1 ELSE NoneObject)

ToolChunk(frags) == Chunk(<<Choice(None, Delta(None, None, frags))>>, NoneObject)

NullDeltaFinish == {None, <<"tool_calls">>}

(* ------------------------- failures of the source ---------------------- *)
\* what the completion source raises: openai.APIConnectionError and
\* openai.APITimeoutError; str(e) may be empty
Exc(cls, msg) == [cls |-> cls, msg |-> msg]
SourceFailures ==
    { Exc("APIConnectionError", <<"Connection error.">>),
      Exc("APITimeoutError", <<>>) }
IndexError == Exc("IndexError", <<"list index out of range">>)

\* the classes that derive from Exception
ExceptionClasses == {"APIConnectionError", "APITimeoutError", "IndexError"}

(* ------------------------------- state --------------------------------- *)
VARIABLES
    stream,               \* self.stream
    pc,                   \* where chat is: "call", "stream", "assemble", "parse", "done"
    yielded,              \* the chunks the source has yielded so far, in arrival order
    completion,           \* the completion object of a non-stream call
    content_parts,
    tool_calls_by_index,
    finish_reason,
    usage,
    reasoning_parts,
    decoded,              \* the fragment indices whose argument text has been decoded, in order
    response,             \* what chat returned, NoneObject before it returns
    raised,               \* the exception raised inside the try block, NoneObject if none
    propagated            \* the exception chat let through, NoneObject if none

locals == <<content_parts, tool_calls_by_index, finish_reason, usage, reasoning_parts>>
outcome == <<response, raised, propagated>>
vars == <<stream, pc, yielded, completion, content_parts, tool_calls_by_index,
          finish_reason, usage, reasoning_parts, decoded, response, raised, propagated>>

(* ------------------------------ LLMResponse ---------------------------- *)
\* LLMResponse(content=..., tool_calls=..., finish_reason=..., usage=..., reasoning_content=...)
LLMResponse(content, tool_calls, fr, u, reasoning_content) ==
    [content |-> content, tool_calls |-> tool_calls, finish_reason |-> fr,
     usage |-> u, reasoning_content |-> reasoning_content]

\* the fields of LLMResponse that a constructor call leaves out
DefaultToolCalls == <<>>
DefaultUsage == EmptyDict
DefaultReasoningContent == None

ToolCallRequest(id, name, arguments) == [id |-> id, name |-> name, arguments |-> arguments]

\* an error response that hands over what the stream had delivered so far
ErrorResponseWithPartialState(e) ==
    LLMResponse(<<"Error: ">> \o e.msg, DefaultToolCalls, ERROR, usage,
                OrNone(Join(reasoning_parts)))

\* LLMResponse(content=f"Error: {e}", finish_reason="error")
ErrorResponse(e) ==
    LLMResponse(<<"Error: ">> \o e.msg, DefaultToolCalls, ERROR, DefaultUsage,
                DefaultReasoningContent)

\* except openai.APIError (a narrower handler)
CatchesAPIErrorOnly(e) == e.cls \in {"APIConnectionError", "APITimeoutError"}

\* except Exception
Catches(e) == e.cls \in ExceptionClasses

\* an exception raised inside the try block of chat
Raise(e) ==
    /\ pc' = "done"
    /\ raised' = e
    /\ IF Catches(e)
       THEN response' = ErrorResponse(e) /\ UNCHANGED propagated
       ELSE propagated' = e /\ UNCHANGED response

(* --------------------------- _consume_stream --------------------------- *)
\* {"prompt_tokens": u.prompt_tokens, "completion_tokens": ..., "total_tokens": ...}
UsageDict(u) == [k \in {"prompt_tokens", "completion_tokens", "total_tokens"} |-> u[k]]

\* chunk.usage alone, without looking at chunk.choices
HasUsage(chunk) == chunk.usage # NoneObject

\* not chunk.choices and chunk.usage
IsUsageOnly(chunk) == ~NonEmpty(chunk.choices) /\ chunk.usage # NoneObject

\* the dict tool_calls_by_index keeps its items in insertion order
DictHas(d, k) == \E n \in 1..Len(d) : d[n].key = k
DictPos(d, k) == CHOOSE n \in 1..Len(d) : d[n].key = k
DictGet(d, k) == d[DictPos(d, k)].val
DictKeys(d) == {d[n].key : n \in 1..Len(d)}

NewEntry == [id |-> <<>>, name |-> <<>>, arguments |-> <<>>]

\* the fragment handler with "=" in place of "+=" on the argument text
ApplyFragmentOverwriting(d, tc_delta) ==
    LET idx == tc_delta.index
        d1 == IF DictHas(d, idx) THEN d ELSE Append(d, [key |-> idx, val |-> NewEntry])
        entry == DictGet(d1, idx)
        e1 == IF Truthy(tc_delta.id) THEN [entry EXCEPT !.id = tc_delta.id] ELSE entry
        e2 == IF tc_delta.function # NoneObject /\ Truthy(tc_delta.function.name)
              THEN [e1 EXCEPT !.name = tc_delta.function.name] ELSE e1
        e3 == IF tc_delta.function # NoneObject /\ Truthy(tc_delta.function.arguments)
              THEN [e2 EXCEPT !.arguments = tc_delta.function.arguments]
              ELSE e2
    IN  [d1 EXCEPT ![DictPos(d1, idx)].val = e3]

\* the fragment handler with unconditional assignments: a fragment without an
\* id, a name or a function part erases what was captured
ApplyFragmentErasing(d, tc_delta) ==
    LET idx == tc_delta.index
        d1 == IF DictHas(d, idx) THEN d ELSE Append(d, [key |-> idx, val |-> NewEntry])
        entry == DictGet(d1, idx)
        e1 == [entry EXCEPT !.id = IF Truthy(tc_delta.id) THEN tc_delta.id ELSE <<>>]
        e2 == [e1 EXCEPT !.name = IF tc_delta.function # NoneObject /\ Truthy(tc_delta.function.name)
                                   THEN tc_delta.function.name ELSE <<>>]
        e3 == IF tc_delta.function # NoneObject /\ Truthy(tc_delta.function.arguments)
              THEN [e2 EXCEPT !.arguments = e2.arguments \o tc_delta.function.arguments]
              ELSE e2
    IN  [d1 EXCEPT ![DictPos(d1, idx)].val = e3]

\* the fragment handler over a list instead of a map: every fragment opens an
\* entry of its own
ApplyFragmentAlwaysNew(d, tc_delta) ==
    LET idx == tc_delta.index
        e1 == IF Truthy(tc_delta.id) THEN [NewEntry EXCEPT !.id = tc_delta.id] ELSE NewEntry
        e2 == IF tc_delta.function # NoneObject /\ Truthy(tc_delta.function.name)
              THEN [e1 EXCEPT !.name = tc_delta.function.name] ELSE e1
        e3 == IF tc_delta.function # NoneObject /\ Truthy(tc_delta.function.arguments)
              THEN [e2 EXCEPT !.arguments = e2.arguments \o tc_delta.function.arguments]
              ELSE e2
    IN  Append(d, [key |-> idx, val |-> e3])

\* one tc_delta of delta.tool_calls
ApplyFragment(d, tc_delta) ==
    LET idx == tc_delta.index
        d1 == IF DictHas(d, idx) THEN d ELSE Append(d, [key |-> idx, val |-> NewEntry])
        entry == DictGet(d1, idx)
        e1 == IF Truthy(tc_delta.id) THEN [entry EXCEPT !.id = tc_delta.id] ELSE entry
        e2 == IF tc_delta.function # NoneObject /\ Truthy(tc_delta.function.name)
              THEN [e1 EXCEPT !.name = tc_delta.function.name] ELSE e1
        e3 == IF tc_delta.function # NoneObject /\ Truthy(tc_delta.function.arguments)
              THEN [e2 EXCEPT !.arguments = e2.arguments \o tc_delta.function.arguments]
              ELSE e2
    IN  [d1 EXCEPT ![DictPos(d1, idx)].val = e3]

\* for tc_delta in delta.tool_calls
RECURSIVE ApplyFragments(_, _)
ApplyFragments(d, tcs) ==
    IF tcs = <<>> THEN d ELSE ApplyFragments(ApplyFragment(d, Head(tcs)), Tail(tcs))

\* finish_reason = choice.finish_reason or "stop", without the guard
OverwriteFinishReason(fr, choice) ==
    IF Truthy(choice.finish_reason) THEN choice.finish_reason ELSE STOP

\* if choice.finish_reason: finish_reason = choice.finish_reason
UpdateFinishReason(fr, choice) ==
    IF Truthy(choice.finish_reason) THEN choice.finish_reason ELSE fr

\* content_parts.insert(0, delta.content)
PrependContent(parts, delta) ==
    IF Truthy(delta.content) THEN <<delta.content>> \o parts ELSE parts

\* if delta.content: content_parts.append(delta.content)
AppendContent(parts, delta) ==
    IF Truthy(delta.content) THEN Append(parts, delta.content) ELSE parts

\* the reasoning buffer fed from delta.content
AppendReasoningFromContent(parts, delta) ==
    IF Truthy(delta.content) THEN Append(parts, delta.content) ELSE parts

\* rc = getattr(delta, "reasoning_content", None); if rc: reasoning_parts.append(rc)
AppendReasoning(parts, delta) ==
    IF Truthy(delta.reasoning_content) THEN Append(parts, delta.reasoning_content) ELSE parts

\* the loop body with a "break" once a finish reason has been captured:
\* chunks after the finish chunk are left unprocessed
ConsumeChunkUntilFinish(chunk) ==
    IF finish_reason # STOP
    THEN UNCHANGED locals
    ELSE IF ~NonEmpty(chunk.choices) /\ chunk.usage # NoneObject
    THEN /\ usage' = UsageDict(chunk.usage)
         /\ UNCHANGED <<content_parts, tool_calls_by_index, finish_reason, reasoning_parts>>
    ELSE IF ~NonEmpty(chunk.choices)
    THEN UNCHANGED locals
    ELSE LET choice == chunk.choices[1]
             delta == choice.delta
         IN  /\ finish_reason' = IF Truthy(choice.finish_reason)
                                 THEN choice.finish_reason ELSE finish_reason
             /\ UNCHANGED usage
             /\ IF delta = NoneObject
                THEN UNCHANGED <<content_parts, reasoning_parts, tool_calls_by_index>>
                ELSE /\ content_parts' = IF Truthy(delta.content)
                                         THEN Append(content_parts, delta.content)
                                         ELSE content_parts
                     /\ reasoning_parts' = IF Truthy(delta.reasoning_content)
                                           THEN Append(reasoning_parts, delta.reasoning_content)
                                           ELSE reasoning_parts
                     /\ tool_calls_by_index' =
                            IF NonEmpty(delta.tool_calls)
                            THEN ApplyFragments(tool_calls_by_index, delta.tool_calls)
                            ELSE tool_calls_by_index

\* the body of "async for chunk in stream"
ConsumeChunk(chunk) ==
    IF IsUsageOnly(chunk)
    THEN /\ usage' = UsageDict(chunk.usage)
         /\ UNCHANGED <<content_parts, tool_calls_by_index, finish_reason, reasoning_parts>>
    ELSE IF ~NonEmpty(chunk.choices)
    THEN UNCHANGED locals
    ELSE LET choice == chunk.choices[1]
             delta == choice.delta
         IN  /\ finish_reason' = UpdateFinishReason(finish_reason, choice)
             /\ UNCHANGED usage
             /\ IF delta = NoneObject
                THEN UNCHANGED <<content_parts, reasoning_parts, tool_calls_by_index>>
                ELSE /\ content_parts' = AppendContent(content_parts, delta)
                     /\ reasoning_parts' = AppendReasoning(reasoning_parts, delta)
                     /\ tool_calls_by_index' =
                            IF NonEmpty(delta.tool_calls)
                            THEN ApplyFragments(tool_calls_by_index, delta.tool_calls)
                            ELSE tool_calls_by_index

\* a loop body that decodes the argument text of every fragment as it arrives
DecodedEagerly(chunk) ==
    IF chunk.choices # <<>> /\ chunk.choices[1].delta # NoneObject
    THEN [n \in 1..Len(chunk.choices[1].delta.tool_calls) |->
             chunk.choices[1].delta.tool_calls[n].index]
    ELSE <<>>

\* the indices whose argument text the loop body decodes: it decodes none,
\* json_repair.loads is only called after the loop
DecodedInLoopBody(chunk) == <<>>

\* a loop body that takes the usage-only chunk for the end of the stream and
\* resets the finish reason there
YieldUsageResetsFinish(chunk) ==
    /\ pc = "stream"
    /\ Len(yielded) < MaxChunks
    /\ yielded' = Append(yielded, chunk)
    /\ IF IsUsageOnly(chunk)
       THEN /\ usage' = UsageDict(chunk.usage)
            /\ finish_reason' = STOP
            /\ UNCHANGED <<content_parts, tool_calls_by_index, reasoning_parts>>
       ELSE ConsumeChunk(chunk)
    /\ decoded' = decoded \o DecodedInLoopBody(chunk)
    /\ UNCHANGED <<stream, pc, completion, outcome>>

\* a loop body that appends delta.content if delta else "" for a null delta
YieldNullDeltaAppends(chunk) ==
    /\ pc = "stream"
    /\ Len(yielded) < MaxChunks
    /\ yielded' = Append(yielded, chunk)
    /\ IF NonEmpty(chunk.choices) /\ chunk.choices[1].delta = NoneObject
       THEN /\ finish_reason' = UpdateFinishReason(finish_reason, chunk.choices[1])
            /\ content_parts' = Append(content_parts, <<>>)
            /\ UNCHANGED <<usage, tool_calls_by_index, reasoning_parts>>
       ELSE ConsumeChunk(chunk)
    /\ decoded' = decoded \o DecodedInLoopBody(chunk)
    /\ UNCHANGED <<stream, pc, completion, outcome>>

\* a loop body with one branch for every chunk without choices:
\* usage = {...} if chunk.usage else {}
YieldKeepAliveClearsUsage(chunk) ==
    /\ pc = "stream"
    /\ Len(yielded) < MaxChunks
    /\ yielded' = Append(yielded, chunk)
    /\ IF ~NonEmpty(chunk.choices)
       THEN /\ usage' = IF chunk.usage # NoneObject THEN UsageDict(chunk.usage) ELSE EmptyDict
            /\ UNCHANGED <<content_parts, tool_calls_by_index, finish_reason, reasoning_parts>>
       ELSE ConsumeChunk(chunk)
    /\ decoded' = decoded \o DecodedInLoopBody(chunk)
    /\ UNCHANGED <<stream, pc, completion, outcome>>

\* the source yields chunk and the loop body runs on it
Yield(chunk) ==
    /\ pc = "stream"
    /\ Len(yielded) < MaxChunks
    /\ yielded' = Append(yielded, chunk)
    /\ ConsumeChunk(chunk)
    /\ decoded' = decoded \o DecodedInLoopBody(chunk)
    /\ UNCHANGED <<stream, pc, completion, outcome>>

\* tool_calls_by_index.items() without the sort: insertion order
UnsortedItems(d) == d

\* sorted(tool_calls_by_index.items())
RECURSIVE Insert(_, _)
Insert(item, sorted) ==
    IF sorted = <<>> THEN <<item>>
    ELSE IF item.key < Head(sorted).key THEN <<item>> \o sorted
    ELSE <<Head(sorted)>> \o Insert(item, Tail(sorted))

RECURSIVE SortedItems(_)
SortedItems(d) ==
    IF d = <<>> THEN <<>> ELSE Insert(Head(d), SortedItems(Tail(d)))

\* json_repair.loads(tc["arguments"]) if tc["arguments"] else {}
StreamArguments(arguments) ==
    IF Truthy(arguments) THEN JsonRepairLoads(arguments) ELSE EmptyMapping

\* the indices whose argument text the list comprehension turns into
\* arguments (json_repair.loads(...) if ... else {}): each item of
\* sorted(tool_calls_by_index.items()), once
DecodedAtAssembly(d) ==
    LET items == SortedItems(d) IN [n \in 1..Len(items) |-> items[n].key]

\* the list comprehension that assembles the tool calls
AssembleToolCalls(d) ==
    LET items == SortedItems(d)
    IN  [n \in 1..Len(items) |->
            ToolCallRequest(items[n].val.id, items[n].val.name,
                            StreamArguments(items[n].val.arguments))]

(* -------------------------------- _parse ------------------------------- *)
\* tc.function.arguments of a message: a str, or an already structured value
StrArguments(text) == [isstr |-> TRUE, text |-> text, value |-> EmptyMapping]
StructuredArguments(value) == [isstr |-> FALSE, text |-> <<>>, value |-> value]

\* json_repair.loads(a) if isinstance(a, str) else a
ParseArguments(a) == IF a.isstr THEN JsonRepairLoads(a.text) ELSE a.value

ParseToolCalls(tcs) ==
    IF NonEmpty(tcs)
    THEN [n \in 1..Len(tcs) |->
            ToolCallRequest(tcs[n].id, tcs[n].function.name,
                            ParseArguments(tcs[n].function.arguments))]
    ELSE <<>>

\* the locals of _consume_stream before the loop
InitialLocals ==
    [content_parts |-> <<>>, tool_calls_by_index |-> <<>>, finish_reason |-> STOP,
     usage |-> EmptyDict, reasoning_parts |-> <<>>]

\* the body of "async for chunk in stream" as a function of the locals
LoopBody(l, chunk) ==
    IF IsUsageOnly(chunk)
    THEN [l EXCEPT !.usage = UsageDict(chunk.usage)]
    ELSE IF ~NonEmpty(chunk.choices)
    THEN l
    ELSE LET choice == chunk.choices[1]
             delta == choice.delta
             l1 == [l EXCEPT !.finish_reason = UpdateFinishReason(l.finish_reason, choice)]
         IN  IF delta = NoneObject
             THEN l1
             ELSE [l1 EXCEPT !.content_parts = AppendContent(l.content_parts, delta),
                             !.reasoning_parts = AppendReasoning(l.reasoning_parts, delta),
                             !.tool_calls_by_index =
                                 IF NonEmpty(delta.tool_calls)
                                 THEN ApplyFragments(l.tool_calls_by_index, delta.tool_calls)
                                 ELSE l.tool_calls_by_index]

\* async for chunk in stream, over a whole chunk sequence
RECURSIVE Loop(_, _)
Loop(l, h) == IF h = <<>> THEN l ELSE Loop(LoopBody(l, Head(h)), Tail(h))

\* _consume_stream as a function of the chunk sequence
ConsumeStream(h) ==
    LET l == Loop(InitialLocals, h)
    IN  LLMResponse(OrNone(Join(l.content_parts)),
                    AssembleToolCalls(l.tool_calls_by_index),
                    l.finish_reason, l.usage,
                    OrNone(Join(l.reasoning_parts)))

\* _parse with usage counters defaulted to zero when the completion has no usage
ParseWithZeroUsage(resp) ==
    LET choice == resp.choices[1]
        msg == choice.message
        u == resp.usage
    IN  LLMResponse(msg.content, ParseToolCalls(msg.tool_calls),
                    IF Truthy(choice.finish_reason) THEN choice.finish_reason ELSE STOP,
                    IF u # NoneObject THEN UsageDict(u)
                    ELSE [k \in {"prompt_tokens", "completion_tokens", "total_tokens"} |-> 0],
                    OrNone(msg.reasoning_content))

\* _parse
Parse(resp) ==
    LET choice == resp.choices[1]
        msg == choice.message
        u == resp.usage
    IN  LLMResponse(msg.content, ParseToolCalls(msg.tool_calls),
                    IF Truthy(choice.finish_reason) THEN choice.finish_reason ELSE STOP,
                    IF u # NoneObject THEN UsageDict(u) ELSE EmptyDict,
                    OrNone(msg.reasoning_content))

(* ------------------------ non-stream completions ----------------------- *)
ArgSamples ==
    { StrArguments(<<>>), StrArguments(<<"{", "a", "}">>), StrArguments(<<"{", "a">>),
      StrArguments(<<"x">>), StructuredArguments(Dict({"a"})) }

MessageToolCall(k, a) == [id |-> CallId(k), function |-> Function(FnName(k), a)]

Message(content, tool_calls, reasoning_content) ==
    [content |-> content, tool_calls |-> tool_calls, reasoning_content |-> reasoning_content]

Completion(choices, u) == [choices |-> choices, usage |-> u]

(* -------------------------------- chat --------------------------------- *)
Init ==
    /\ stream \in BOOLEAN
    /\ pc = "call"
    /\ yielded = <<>>
    /\ completion = NoneObject
    /\ content_parts = <<>>
    /\ tool_calls_by_index = <<>>
    /\ finish_reason = STOP
    /\ usage = EmptyDict
    /\ reasoning_parts = <<>>
    /\ decoded = <<>>
    /\ response = NoneObject
    /\ raised = NoneObject
    /\ propagated = NoneObject

\* create(**kwargs) returns the stream; _consume_stream sets up its locals
CreateStream ==
    /\ pc = "call" /\ stream
    /\ pc' = "stream"
    /\ content_parts' = <<>>
    /\ tool_calls_by_index' = <<>>
    /\ finish_reason' = STOP
    /\ usage' = EmptyDict
    /\ reasoning_parts' = <<>>
    /\ UNCHANGED <<stream, decoded, yielded, completion, outcome>>

\* create(**kwargs) returns a completion object
CreateCompletion ==
    /\ pc = "call" /\ ~stream
    /\ \E content \in {None, <<>>, <<"h">>}, rc \in {None, <<"r">>},
          fr \in {None, <<"length">>}, with_usage \in BOOLEAN, n \in 0..MaxCalls :
         \E f \in [1..n -> ArgSamples] :
            LET tcs == IF n = 0 THEN <<>>
                       ELSE [k \in 1..n |-> MessageToolCall(k - 1, f[k])]
                msg == Message(content, tcs, rc)
            IN  completion' = Completion(<<[message |-> msg, finish_reason |-> fr]>>,
                                         IF with_usage THEN U1 ELSE NoneObject)
    /\ pc' = "parse"
    /\ UNCHANGED <<stream, decoded, yielded, locals, outcome>>

\* create(**kwargs) returns a completion object that has no choices
CreateEmptyCompletion ==
    /\ pc = "call" /\ ~stream
    /\ completion' = Completion(<<>>, NoneObject)
    /\ pc' = "parse"
    /\ UNCHANGED <<stream, decoded, yielded, locals, outcome>>

\* create(**kwargs) raises
CreateRaises ==
    /\ pc = "call"
    /\ \E e \in SourceFailures : Raise(e)
    /\ UNCHANGED <<stream, decoded, yielded, completion, locals>>

YieldUsageOnly == \E u \in UsageObjs : Yield(Chunk(<<>>, u))

YieldEmpty == Yield(Chunk(<<>>, NoneObject))

YieldNullDelta == \E fr \in NullDeltaFinish : Yield(Chunk(<<Choice(fr, NoneObject)>>, NoneObject))

YieldText == \E t \in TextSamples : Yield(TextChunk(t))

YieldFragments ==
    \/ \E i \in Idx : Yield(ToolChunk(<<HeadFragment(i)>>))
    \/ \E i \in Idx : Yield(ToolChunk(<<IdFragment(i)>>))
    \/ \E i \in Idx : Yield(ToolChunk(<<NameFragment(i)>>))
    \/ \E i \in Idx : Yield(ToolChunk(<<BareFragment(i)>>))
    \/ \E i \in Idx, p \in ArgPieces : Yield(ToolChunk(<<ArgFragment(i, p)>>))
    \/ \E i \in 1..MaxIdx : Yield(ToolChunk(<<HeadFragment(i), HeadFragment(i - 1)>>))

\* the iteration of the stream raises instead of yielding a chunk
StreamRaises ==
    /\ pc = "stream"
    /\ \E e \in SourceFailures : Raise(e)
    /\ UNCHANGED <<stream, decoded, yielded, completion, locals>>

\* the stream is exhausted: the loop ends
StreamExhausted ==
    /\ pc = "stream"
    /\ pc' = "assemble"
    /\ UNCHANGED <<stream, decoded, yielded, completion, locals, outcome>>

\* the tail of _consume_stream: assemble the tool calls and return
Assemble ==
    /\ pc = "assemble"
    /\ response' = LLMResponse(OrNone(Join(content_parts)),
                               AssembleToolCalls(tool_calls_by_index),
                               finish_reason, usage,
                               OrNone(Join(reasoning_parts)))
    /\ decoded' = decoded \o DecodedAtAssembly(tool_calls_by_index)
    /\ pc' = "done"
    /\ UNCHANGED <<stream, yielded, completion, locals, raised, propagated>>

\* return self._parse(response)
ParseReturns ==
    /\ pc = "parse"
    /\ NonEmpty(completion.choices)
    /\ response' = Parse(completion)
    /\ pc' = "done"
    /\ UNCHANGED <<stream, decoded, yielded, completion, locals, raised, propagated>>

\* response.choices[0] raises IndexError inside _parse
ParseRaises ==
    /\ pc = "parse"
    /\ ~NonEmpty(completion.choices)
    /\ Raise(IndexError)
    /\ UNCHANGED <<stream, decoded, yielded, completion, locals>>

Next ==
    \/ CreateStream
    \/ CreateCompletion
    \/ CreateEmptyCompletion
    \/ CreateRaises
    \/ YieldUsageOnly
    \/ YieldEmpty
    \/ YieldNullDelta
    \/ YieldText
    \/ YieldFragments
    \/ StreamRaises
    \/ StreamExhausted
    \/ Assemble
    \/ ParseReturns
    \/ ParseRaises

Spec == Init /\ [][Next]_vars

TypeOK ==
    /\ pc \in {"call", "stream", "assemble", "parse", "done"}
    /\ Len(yielded) <= MaxChunks

(* ---------------- what the yielded chunks say, read directly ----------- *)
\* These operators read the chunk history; they do not use the aggregator.
HasDelta(chunk) == chunk.choices # <<>> /\ chunk.choices[1].delta # NoneObject

ContentOf(chunk) ==
    IF HasDelta(chunk) /\ chunk.choices[1].delta.content # None
    THEN chunk.choices[1].delta.content ELSE <<>>

ReasoningOf(chunk) ==
    IF HasDelta(chunk) /\ chunk.choices[1].delta.reasoning_content # None
    THEN chunk.choices[1].delta.reasoning_content ELSE <<>>

FragmentsOf(chunk) == IF HasDelta(chunk) THEN chunk.choices[1].delta.tool_calls ELSE <<>>

\* concatenation of the content substrings of the first n chunks
RECURSIVE ExpectedContent(_, _)
ExpectedContent(h, n) ==
    IF n = 0 THEN <<>> ELSE ExpectedContent(h, n - 1) \o ContentOf(h[n])

RECURSIVE ExpectedReasoning(_, _)
ExpectedReasoning(h, n) ==
    IF n = 0 THEN <<>> ELSE ExpectedReasoning(h, n - 1) \o ReasoningOf(h[n])

\* all fragments of the first n chunks, in arrival order
RECURSIVE AllFragments(_, _)
AllFragments(h, n) ==
    IF n = 0 THEN <<>> ELSE AllFragments(h, n - 1) \o FragmentsOf(h[n])

ExpectedIndices(h) ==
    LET fs == AllFragments(h, Len(h)) IN {fs[n].index : n \in 1..Len(fs)}

\* the n-th smallest element of a set of integers
NthSmallest(S, n) == CHOOSE i \in S : Cardinality({j \in S : j < i}) = n - 1

ArgumentsOf(frag) ==
    IF frag.function # NoneObject /\ frag.function.arguments # None
    THEN frag.function.arguments ELSE <<>>

\* concatenation of the argument substrings that the first n fragments supply for index i
RECURSIVE ExpectedArguments(_, _, _)
ExpectedArguments(fs, i, n) ==
    IF n = 0 THEN <<>>
    ELSE ExpectedArguments(fs, i, n - 1) \o (IF fs[n].index = i THEN ArgumentsOf(fs[n]) ELSE <<>>)

\* the last non-empty id among the first n fragments for index i, "" if none
RECURSIVE ExpectedId(_, _, _)
ExpectedId(fs, i, n) ==
    IF n = 0 THEN <<>>
    ELSE IF fs[n].index = i /\ fs[n].id # None /\ fs[n].id # <<>> THEN fs[n].id
    ELSE ExpectedId(fs, i, n - 1)

\* the last non-empty name among the first n fragments for index i, "" if none
RECURSIVE ExpectedName(_, _, _)
ExpectedName(fs, i, n) ==
    IF n = 0 THEN <<>>
    ELSE IF /\ fs[n].index = i
            /\ fs[n].function # NoneObject
            /\ fs[n].function.name # None
            /\ fs[n].function.name # <<>>
         THEN fs[n].function.name
    ELSE ExpectedName(fs, i, n - 1)

\* argument text in which no JSON value starts: nothing a decoder could recover
Irrecoverable(text) == text # <<>> /\ \A n \in 1..Len(text) : text[n] # "{"

\* the last non-empty first-choice finish reason among the first n chunks
RECURSIVE ExpectedFinishReason(_, _)
ExpectedFinishReason(h, n) ==
    IF n = 0 THEN STOP
    ELSE IF h[n].choices # <<>> /\ h[n].choices[1].finish_reason \notin {None, <<>>}
         THEN h[n].choices[1].finish_reason
    ELSE ExpectedFinishReason(h, n - 1)

\* the three counters of the last of the first n chunks that has no choices and has usage
RECURSIVE ExpectedUsage(_, _)
ExpectedUsage(h, n) ==
    IF n = 0 THEN EmptyDict
    ELSE IF h[n].choices = <<>> /\ h[n].usage # NoneObject
         THEN [prompt_tokens |-> h[n].usage.prompt_tokens,
               completion_tokens |-> h[n].usage.completion_tokens,
               total_tokens |-> h[n].usage.total_tokens]
    ELSE ExpectedUsage(h, n - 1)

\* _consume_stream has returned its response
StreamReturned == stream /\ pc = "done" /\ raised = NoneObject

\* _parse has returned its response
ParseReturned == ~stream /\ pc = "done" /\ raised = NoneObject

(* -------------------------------- claims ------------------------------- *)
\* C1: whatever the completion source raises (at create, at any chunk
\* position of the stream, or while the completion object is parsed), chat
\* returns a response with finish_reason "error" and non-empty content, and
\* no exception leaves chat.
C1_ErrorBoundary ==
    /\ propagated = NoneObject
    /\ pc = "done" => response # NoneObject
    /\ raised # NoneObject =>
          /\ pc = "done"
          /\ response # NoneObject
          /\ response.finish_reason = ERROR
          /\ response.content # None
          /\ response.content # <<>>

\* a stream that failed after chunks were consumed, with an empty str(e)
C1_Witness ==
    /\ stream /\ pc = "done" /\ Len(yielded) >= 2
    /\ raised # NoneObject /\ raised.msg = <<>>
    /\ response.finish_reason = ERROR

\* C3: the content of the response of _consume_stream is the concatenation,
\* in arrival order, of the content substrings of the first-choice deltas,
\* and None (never "") when no chunk supplied any content.
C3_ContentIsConcatenation ==
    StreamReturned =>
        LET expected == ExpectedContent(yielded, Len(yielded))
        IN  /\ response.content # <<>>
            /\ response.content = IF expected = <<>> THEN None ELSE expected

\* content that arrived in two pieces with a chunk without content between them
C3_Witness ==
    /\ StreamReturned
    /\ Len(yielded) = 3
    /\ ContentOf(yielded[1]) = <<"i">>
    /\ ContentOf(yielded[2]) = <<>>
    /\ ContentOf(yielded[3]) = <<"h">>
    /\ response.content = <<"i", "h">>

\* C2: _consume_stream produces exactly one response and produces it only
\* after the chunk sequence is exhausted; every chunk is processed once, in
\* arrival order, and the content, fragments and usage of chunks that arrive
\* after a chunk with a finish reason still reach the result.
C2_OneResponseAfterExhaustion ==
    /\ [](StreamReturned =>
            /\ response # NoneObject
            /\ Join(content_parts) = ExpectedContent(yielded, Len(yielded))
            /\ Join(reasoning_parts) = ExpectedReasoning(yielded, Len(yielded))
            /\ DictKeys(tool_calls_by_index) = ExpectedIndices(yielded)
            /\ Len(response.tool_calls) = Cardinality(ExpectedIndices(yielded))
            /\ response.content = OrNone(ExpectedContent(yielded, Len(yielded)))
            /\ response.usage = ExpectedUsage(yielded, Len(yielded)))
    /\ [][/\ response # NoneObject => response' = response
          /\ (stream /\ response = NoneObject /\ response' # NoneObject /\ raised' = NoneObject)
                => (pc = "assemble" /\ yielded' = yielded)
          /\ (pc = "assemble" \/ pc = "done") => yielded' = yielded]_vars

\* a finish reason on the first chunk, then content, then a usage-only chunk
C2_Witness ==
    /\ StreamReturned
    /\ Len(yielded) = 3
    /\ yielded[1].choices # <<>>
    /\ yielded[1].choices[1].finish_reason = <<"length">>
    /\ ContentOf(yielded[2]) = <<"h">>
    /\ yielded[3].choices = <<>>
    /\ yielded[3].usage # NoneObject
    /\ response.content = <<"h">>
    /\ response.usage # EmptyDict
    /\ response.finish_reason = <<"length">>

\* C4: the tool calls of the response are in strictly ascending order of
\* fragment index, whatever the arrival order of the fragments: the n-th tool
\* call is the call of the n-th smallest index that appeared.
C4_ToolCallsAscendingByIndex ==
    StreamReturned =>
        LET fs == AllFragments(yielded, Len(yielded))
            idxs == ExpectedIndices(yielded)
        IN  /\ Len(response.tool_calls) = Cardinality(idxs)
            /\ \A n \in 1..Len(response.tool_calls) :
                  LET i == NthSmallest(idxs, n)
                  IN  /\ response.tool_calls[n].id = ExpectedId(fs, i, Len(fs))
                      /\ response.tool_calls[n].arguments =
                            StreamArguments(ExpectedArguments(fs, i, Len(fs)))

\* index 1 arrives first, then index 0, then index 1 is updated again
C4_Witness ==
    /\ StreamReturned
    /\ Len(yielded) = 3
    /\ Len(tool_calls_by_index) = 2
    /\ tool_calls_by_index[1].key = 1
    /\ tool_calls_by_index[2].key = 0
    /\ FragmentsOf(yielded[3]) # <<>>
    /\ FragmentsOf(yielded[3])[1].index = 1
    /\ response.tool_calls[1].id = CallId(0)
    /\ response.tool_calls[2].id = CallId(1)

\* C5: for every fragment index, the argument string that is decoded is the
\* concatenation, in arrival order, of exactly the argument substrings
\* supplied for that index; it only grows by appending.
C5_ArgumentsConcatenatedPerIndex ==
    /\ [](stream /\ raised = NoneObject =>
            LET fs == AllFragments(yielded, Len(yielded))
            IN  \A n \in 1..Len(tool_calls_by_index) :
                   tool_calls_by_index[n].val.arguments =
                       ExpectedArguments(fs, tool_calls_by_index[n].key, Len(fs)))
    /\ [][\A n \in 1..Len(tool_calls_by_index) :
             /\ n <= Len(tool_calls_by_index')
             /\ tool_calls_by_index'[n].key = tool_calls_by_index[n].key
             /\ Len(tool_calls_by_index'[n].val.arguments) >= Len(tool_calls_by_index[n].val.arguments)
             /\ SubSeq(tool_calls_by_index'[n].val.arguments, 1,
                       Len(tool_calls_by_index[n].val.arguments))
                  = tool_calls_by_index[n].val.arguments]_vars

\* the argument text of index 0 arrives in two pieces with a piece of index 1 between them
C5_Witness ==
    /\ StreamReturned
    /\ Len(yielded) = 3
    /\ Len(tool_calls_by_index) = 2
    /\ tool_calls_by_index[1].key = 0
    /\ tool_calls_by_index[1].val.arguments = <<"{", "a", "}">>
    /\ tool_calls_by_index[2].val.arguments = <<"x">>
    /\ response.tool_calls[1].arguments = Dict({"a"})

\* C9: the finish_reason of the response is the first-choice finish reason of
\* the last chunk that carried a non-empty one, "stop" if none did; a later
\* chunk without a finish reason does not erase it.
C9_LastNonEmptyFinishReason ==
    /\ (stream /\ raised = NoneObject) =>
          finish_reason = ExpectedFinishReason(yielded, Len(yielded))
    /\ StreamReturned =>
          response.finish_reason = ExpectedFinishReason(yielded, Len(yielded))

\* two different finish reasons, then a chunk with an empty one
C9_Witness ==
    /\ StreamReturned
    /\ Len(yielded) = 3
    /\ yielded[1].choices # <<>> /\ yielded[1].choices[1].finish_reason = <<"tool_calls">>
    /\ yielded[2].choices # <<>> /\ yielded[2].choices[1].finish_reason = <<"length">>
    /\ yielded[3].choices # <<>> /\ yielded[3].choices[1].finish_reason = <<>>
    /\ response.finish_reason = <<"length">>

\* C10: the usage of the response is the usage of the last chunk that has no
\* choices and carries usage (its three counters, never a sum over several
\* such chunks); usage on a chunk that has choices has no effect.
C10_UsageFromLastUsageOnlyChunk ==
    StreamReturned => response.usage = ExpectedUsage(yielded, Len(yielded))

\* two usage-only chunks with different counters, then a chunk with a choice and usage
C10_Witness ==
    /\ StreamReturned
    /\ Len(yielded) = 3
    /\ yielded[1] = Chunk(<<>>, U1)
    /\ yielded[2] = Chunk(<<>>, U2)
    /\ yielded[3].choices # <<>> /\ yielded[3].usage = U1
    /\ response.usage = UsageDict(U2)
    /\ response.usage.total_tokens = 5

\* C6: in streaming mode a tool call whose accumulated argument string is
\* irrecoverably malformed has arguments equal to the empty mapping and keeps
\* its id and name, and the arguments of every returned tool call are a mapping.
C6_MalformedStreamArgumentsAreEmptyMapping ==
    StreamReturned =>
        LET fs == AllFragments(yielded, Len(yielded))
            idxs == ExpectedIndices(yielded)
        IN  /\ Len(response.tool_calls) = Cardinality(idxs)
            /\ \A n \in 1..Len(response.tool_calls) :
                  LET i == NthSmallest(idxs, n)
                      call == response.tool_calls[n]
                  IN  /\ call.arguments.type = "dict"
                      /\ Irrecoverable(ExpectedArguments(fs, i, Len(fs))) =>
                            /\ call.arguments = EmptyMapping
                            /\ call.id = ExpectedId(fs, i, Len(fs))
                            /\ call.name = ExpectedName(fs, i, Len(fs))

\* C7: in non-stream mode a tool call whose argument string cannot be decoded
\* does not abort the response: _parse returns normally, that call is present
\* with its id and name and arguments equal to the empty mapping, and every
\* other tool call of the message is present.
C7_UndecodableParseArgumentsAreEmptyMapping ==
    (~stream /\ pc = "done" /\ completion # NoneObject /\ completion.choices # <<>>) =>
        LET tcs == completion.choices[1].message.tool_calls
        IN  /\ raised = NoneObject
            /\ response.finish_reason # ERROR
            /\ Len(response.tool_calls) = Len(tcs)
            /\ \A n \in 1..Len(tcs) :
                  /\ response.tool_calls[n].id = tcs[n].id
                  /\ response.tool_calls[n].name = tcs[n].function.name
                  /\ (tcs[n].function.arguments.isstr
                        /\ Irrecoverable(tcs[n].function.arguments.text)) =>
                        response.tool_calls[n].arguments = EmptyMapping

\* C8: on both paths a tool call whose argument string is empty has arguments
\* equal to the empty mapping.
C8_EmptyArgumentsAreEmptyMapping ==
    /\ StreamReturned =>
          LET fs == AllFragments(yielded, Len(yielded))
              idxs == ExpectedIndices(yielded)
          IN  \A n \in 1..Len(response.tool_calls) :
                 ExpectedArguments(fs, NthSmallest(idxs, n), Len(fs)) = <<>> =>
                    response.tool_calls[n].arguments = EmptyMapping
    /\ ParseReturned =>
          LET tcs == completion.choices[1].message.tool_calls
          IN  \A n \in 1..Len(tcs) :
                 (tcs[n].function.arguments.isstr /\ tcs[n].function.arguments.text = <<>>) =>
                    response.tool_calls[n].arguments = EmptyMapping

\* the chunk that the step yields, when the step yields one
YieldsChunk == Len(yielded') = Len(yielded) + 1
Yielded == yielded'[Len(yielded')]

\* the history without the chunks that carry neither choices nor usage
RECURSIVE WithoutKeepAlives(_)
WithoutKeepAlives(h) ==
    IF h = <<>> THEN <<>>
    ELSE IF Head(h).choices = <<>> /\ Head(h).usage = NoneObject
         THEN WithoutKeepAlives(Tail(h))
    ELSE <<Head(h)>> \o WithoutKeepAlives(Tail(h))

\* C11: processing a chunk with empty choices and a usage object changes only
\* the running usage; the content buffer, the reasoning buffer, the fragment
\* map and the running finish reason stay as they were.
C11_UsageOnlyChunkChangesOnlyUsage ==
    [][(YieldsChunk /\ Yielded.choices = <<>> /\ Yielded.usage # NoneObject) =>
          /\ content_parts' = content_parts
          /\ reasoning_parts' = reasoning_parts
          /\ tool_calls_by_index' = tool_calls_by_index
          /\ finish_reason' = finish_reason
          /\ usage'["total_tokens"] = Yielded.usage.total_tokens]_vars

\* a usage-only chunk has just been processed with content, a fragment and a
\* finish reason already captured
C11_Witness ==
    /\ pc = "stream"
    /\ Len(yielded) = 3
    /\ yielded[3] = Chunk(<<>>, U2)
    /\ usage = UsageDict(U2)
    /\ tool_calls_by_index # <<>>
    /\ reasoning_parts # <<>>
    /\ finish_reason = <<"length">>

\* C15: processing a chunk whose first choice has a null delta leaves the
\* content buffer, the reasoning buffer and the fragment map unchanged (and the
\* usage); only the running finish reason can change.
C15_NullDeltaChangesOnlyFinishReason ==
    [][(YieldsChunk /\ Yielded.choices # <<>> /\ Yielded.choices[1].delta = NoneObject) =>
          /\ content_parts' = content_parts
          /\ reasoning_parts' = reasoning_parts
          /\ tool_calls_by_index' = tool_calls_by_index
          /\ usage' = usage]_vars

\* a null-delta chunk has just changed the finish reason while content and a
\* fragment were already captured
C15_Witness ==
    /\ pc = "stream"
    /\ Len(yielded) = 3
    /\ yielded[3] = Chunk(<<Choice(<<"tool_calls">>, NoneObject)>>, NoneObject)
    /\ finish_reason = <<"tool_calls">>
    /\ content_parts # <<>>
    /\ tool_calls_by_index # <<>>

\* C16: processing a chunk with no choices and no usage changes nothing, so
\* the response is the one of the same sequence without such chunks.
C16_KeepAliveChunkChangesNothing ==
    /\ [][(YieldsChunk /\ Yielded.choices = <<>> /\ Yielded.usage = NoneObject) =>
             /\ content_parts' = content_parts
             /\ reasoning_parts' = reasoning_parts
             /\ tool_calls_by_index' = tool_calls_by_index
             /\ finish_reason' = finish_reason
             /\ usage' = usage]_vars
    /\ [](StreamReturned =>
            LET h == WithoutKeepAlives(yielded)
            IN  /\ response.content = OrNone(ExpectedContent(h, Len(h)))
                /\ response.reasoning_content = OrNone(ExpectedReasoning(h, Len(h)))
                /\ response.finish_reason = ExpectedFinishReason(h, Len(h))
                /\ response.usage = ExpectedUsage(h, Len(h))
                /\ Len(response.tool_calls) = Cardinality(ExpectedIndices(h)))

\* a keep-alive chunk between a usage-only chunk and a content chunk
C16_Witness ==
    /\ StreamReturned
    /\ Len(yielded) = 3
    /\ yielded[1] = Chunk(<<>>, U1)
    /\ yielded[2] = Chunk(<<>>, NoneObject)
    /\ ContentOf(yielded[3]) = <<"h">>
    /\ response.usage = UsageDict(U1)
    /\ response.content = <<"h">>

\* C12: when the source never reports usage (a completion without usage, or
\* a chunk sequence without a usage-only chunk) the usage of the response is
\* empty: it has no token counter, it is not a mapping of zeros.
C12_NoUsageReportedGivesEmptyUsage ==
    /\ (ParseReturned /\ completion.usage = NoneObject) =>
          /\ response.usage = EmptyDict
          /\ DOMAIN response.usage = {}
    /\ (StreamReturned /\ \A n \in 1..Len(yielded) :
                             ~(yielded[n].choices = <<>> /\ yielded[n].usage # NoneObject)) =>
          /\ response.usage = EmptyDict
          /\ DOMAIN response.usage = {}

\* _parse has returned for a completion that has a message and no usage
C12_Witness ==
    /\ ParseReturned
    /\ completion.usage = NoneObject
    /\ completion.choices # <<>>
    /\ response.finish_reason # ERROR
    /\ response.usage = EmptyDict

\* C13: in streaming mode the argument string of each fragment index is turned
\* into arguments exactly once and only after the chunk sequence is exhausted:
\* nothing is decoded while a chunk is unconsumed, no index is decoded twice.
C13_DecodedOnceAfterExhaustion ==
    /\ [](pc # "done" => decoded = <<>>)
    /\ [](StreamReturned =>
            /\ Len(decoded) = Cardinality(ExpectedIndices(yielded))
            /\ \A i \in ExpectedIndices(yielded) :
                  Cardinality({n \in 1..Len(decoded) : decoded[n] = i}) = 1)
    /\ [][(decoded' # decoded) => (pc = "assemble" /\ yielded' = yielded)]_vars

\* the argument text of index 0 arrived in two chunks and was decoded once
C13_Witness ==
    /\ StreamReturned
    /\ Len(yielded) = 3
    /\ FragmentsOf(yielded[1]) = <<ArgFragment(0, <<"{">>)>>
    /\ FragmentsOf(yielded[2]) = <<HeadFragment(1)>>
    /\ FragmentsOf(yielded[3]) = <<ArgFragment(0, <<"a", "}">>)>>
    /\ decoded = <<0, 1>>
    /\ response.tool_calls[1].arguments = Dict({"a"})

\* C14: for every fragment index the id (the name) of the tool call is the
\* last non-empty id (name) supplied for that index in arrival order; a later
\* fragment without id (name) or without function part leaves it unchanged.
C14_IdAndNameAreLastNonEmpty ==
    /\ (stream /\ raised = NoneObject) =>
          LET fs == AllFragments(yielded, Len(yielded))
          IN  \A n \in 1..Len(tool_calls_by_index) :
                 /\ tool_calls_by_index[n].val.id =
                       ExpectedId(fs, tool_calls_by_index[n].key, Len(fs))
                 /\ tool_calls_by_index[n].val.name =
                       ExpectedName(fs, tool_calls_by_index[n].key, Len(fs))
    /\ StreamReturned =>
          LET fs == AllFragments(yielded, Len(yielded))
              idxs == ExpectedIndices(yielded)
          IN  \A n \in 1..Len(response.tool_calls) :
                 /\ response.tool_calls[n].id = ExpectedId(fs, NthSmallest(idxs, n), Len(fs))
                 /\ response.tool_calls[n].name = ExpectedName(fs, NthSmallest(idxs, n), Len(fs))

\* id and name of index 0, then a new id without function part, then a
\* fragment that carries only the index
C14_Witness ==
    /\ StreamReturned
    /\ Len(yielded) = 3
    /\ FragmentsOf(yielded[1]) = <<HeadFragment(0)>>
    /\ FragmentsOf(yielded[2]) = <<IdFragment(0)>>
    /\ FragmentsOf(yielded[3]) = <<BareFragment(0)>>
    /\ response.tool_calls[1].id = <<"renamed">>
    /\ response.tool_calls[1].name = FnName(0)

\* C17: reasoning_content of the response is the concatenation, in arrival
\* order, of the reasoning substrings of the deltas, None (never "") when there
\* was none; content is built from the content substrings alone.
C17_ReasoningIsConcatenation ==
    /\ (stream /\ raised = NoneObject) =>
          Join(reasoning_parts) = ExpectedReasoning(yielded, Len(yielded))
    /\ StreamReturned =>
          /\ response.reasoning_content = OrNone(ExpectedReasoning(yielded, Len(yielded)))
          /\ response.reasoning_content # <<>>
          /\ response.content = OrNone(ExpectedContent(yielded, Len(yielded)))
          /\ response.content # <<>>

\* reasoning "r" next to content, an empty reasoning string, then reasoning "s" alone
C17_Witness ==
    /\ StreamReturned
    /\ Len(yielded) = 3
    /\ ReasoningOf(yielded[1]) = <<"r">>
    /\ ReasoningOf(yielded[2]) = <<>>
    /\ ReasoningOf(yielded[3]) = <<"s">>
    /\ response.reasoning_content = <<"r", "s">>
    /\ response.content = <<"i">>

\* C18: when the chunk sequence fails after chunks were consumed, the response
\* of chat carries none of the accumulated state: no tool call, empty usage, no
\* reasoning_content, the diagnostic text as content.
C18_FailureDiscardsAccumulatedState ==
    (stream /\ pc = "done" /\ raised # NoneObject) =>
        /\ response.tool_calls = <<>>
        /\ response.usage = EmptyDict
        /\ response.reasoning_content = None
        /\ response.content = <<"Error: ">> \o raised.msg
        /\ response.finish_reason = ERROR

\* the source failed after a usage-only chunk, a reasoning chunk and a fragment
C18_Witness ==
    /\ stream /\ pc = "done" /\ raised # NoneObject
    /\ Len(yielded) = 3
    /\ usage # EmptyDict
    /\ reasoning_parts # <<>>
    /\ content_parts # <<>>
    /\ tool_calls_by_index # <<>>
    /\ response.finish_reason = ERROR
    /\ response.usage = EmptyDict

\* C19: tool_calls has exactly one tool call per distinct fragment index that
\* appeared, none dropped, none duplicated; an index that only ever came as a
\* bare index yields a call with empty id, empty name and empty-mapping arguments.
C19_OneToolCallPerIndex ==
    /\ (stream /\ raised = NoneObject) =>
          /\ DictKeys(tool_calls_by_index) = ExpectedIndices(yielded)
          /\ Len(tool_calls_by_index) = Cardinality(ExpectedIndices(yielded))
    /\ StreamReturned =>
          LET fs == AllFragments(yielded, Len(yielded))
              idxs == ExpectedIndices(yielded)
          IN  /\ Len(response.tool_calls) = Cardinality(idxs)
              /\ \A n \in 1..Len(response.tool_calls) :
                    (\A k \in 1..Len(fs) :
                        fs[k].index = NthSmallest(idxs, n) => fs[k] = BareFragment(fs[k].index))
                    => response.tool_calls[n] = ToolCallRequest(<<>>, <<>>, EmptyMapping)

\* index 1 came only as a bare index, twice, next to a full call of index 0
C19_Witness ==
    /\ StreamReturned
    /\ Len(yielded) = 3
    /\ FragmentsOf(yielded[1]) = <<BareFragment(1)>>
    /\ FragmentsOf(yielded[2]) = <<HeadFragment(0)>>
    /\ FragmentsOf(yielded[3]) = <<BareFragment(1)>>
    /\ Len(response.tool_calls) = 2
    /\ response.tool_calls[2] = ToolCallRequest(<<>>, <<>>, EmptyMapping)

\* s1 + s2; a substring absent from one half counts as "", one absent from
\* both halves is absent from the whole
Cat(s1, s2) ==
    IF s1 = None /\ s2 = None THEN None
    ELSE (IF s1 = None THEN <<>> ELSE s1) \o (IF s2 = None THEN <<>> ELSE s2)

\* c1 and c2 are the two halves of one chunk: both carry a delta, the same
\* finish reason and usage, and fragments with pairwise the same index, id and
\* name (one fragment per index in a delta)
IsSplit(c1, c2) ==
    /\ HasDelta(c1) /\ HasDelta(c2)
    /\ c1.choices[1].finish_reason = c2.choices[1].finish_reason
    /\ c1.usage = c2.usage
    /\ LET f1 == FragmentsOf(c1)
           f2 == FragmentsOf(c2)
       IN  /\ Len(f1) = Len(f2)
           /\ \A n \in 1..Len(f1) :
                 /\ f1[n].index = f2[n].index
                 /\ f1[n].id = f2[n].id
                 /\ (f1[n].function = NoneObject) <=> (f2[n].function = NoneObject)
                 /\ f1[n].function # NoneObject => f1[n].function.name = f2[n].function.name
           /\ \A m, n \in 1..Len(f1) : f1[m].index = f1[n].index => m = n

\* the one chunk of which c1 and c2 are the halves
Merged(c1, c2) ==
    LET d1 == c1.choices[1].delta
        d2 == c2.choices[1].delta
    IN  Chunk(<<Choice(c1.choices[1].finish_reason,
                       Delta(Cat(d1.content, d2.content),
                             Cat(d1.reasoning_content, d2.reasoning_content),
                             [n \in 1..Len(d1.tool_calls) |->
                                 Fragment(d1.tool_calls[n].index, d1.tool_calls[n].id,
                                     IF d1.tool_calls[n].function = NoneObject
                                     THEN NoneObject
                                     ELSE Function(d1.tool_calls[n].function.name,
                                                   Cat(d1.tool_calls[n].function.arguments,
                                                       d2.tool_calls[n].function.arguments)))]))>>,
              c1.usage)

\* C20: the response of _consume_stream does not depend on chunk boundaries:
\* a chunk sequence in which one chunk carrying s1+s2 is replaced by two
\* consecutive chunks carrying s1 and s2 (same index, id, name and finish
\* reason) gives the same response as the sequence with the one chunk.
C20_ChunkBoundariesDoNotMatter ==
    StreamReturned =>
        /\ response = ConsumeStream(yielded)
        /\ \A k \in 1..(Len(yielded) - 1) :
              IsSplit(yielded[k], yielded[k + 1]) =>
                 ConsumeStream(SubSeq(yielded, 1, k - 1)
                               \o <<Merged(yielded[k], yielded[k + 1])>>
                               \o SubSeq(yielded, k + 2, Len(yielded))) = response

\* the argument text "{a}" of index 0 arrived as "{" and "a}" in two chunks
C20_Witness ==
    /\ StreamReturned
    /\ Len(yielded) = 3
    /\ yielded[1] = ToolChunk(<<HeadFragment(0)>>)
    /\ yielded[2] = ToolChunk(<<ArgFragment(0, <<"{">>)>>)
    /\ yielded[3] = ToolChunk(<<ArgFragment(0, <<"a", "}">>)>>)
    /\ IsSplit(yielded[2], yielded[3])
    /\ Merged(yielded[2], yielded[3]) = ToolChunk(<<ArgFragment(0, <<"{", "a", "}">>)>>)
    /\ response.tool_calls[1].arguments = Dict({"a"})

====
